---- MODULE Spec2Model ----
(***************************************************************************)
(* A model of appbundler: the orchestration in main() and the operations   *)
(* of package application it sequences (ValidateConfiguration,             *)
(* CreateDirectoryStructure, DeleteAll, CreatePlist/CreatePkgInfo,         *)
(* CopyExecutable, CopyIcon, SignApplication, NotarizeApplication).        *)
(*                                                                         *)
(* A path is the sequence of its components ("A.app/Contents" is           *)
(* <<"A.app", "Contents">>, the empty string is << >>), so filepath.Join   *)
(* is concatenation and "is at or below" is the prefix relation.  The      *)
(* filesystem is a function from the existing paths to their entries.      *)
(***************************************************************************)
EXTENDS Integers, Sequences, FiniteSets, TLC

VARIABLES
    packageInfo,          \* the parsed descriptor (readDescriptionFile.go packageInfo)
    flag,                 \* the command-line flags of this run
    applicationDirectory, \* the six package-level layout paths
    contentsDir,
    macosDir,
    resourcesDir,
    javaDir,
    runtimeDir,
    fs,                   \* the filesystem: path -> entry
    pc,                   \* main's position
    exitCode,             \* -1 while running, then the process's exit status
    stages,               \* the stages started so far, in order, with their outcome
    calls,                \* the calls of the operations and of their steps, in order
    subprocs,             \* the subprocesses started so far, in order
    parameters            \* the loaded configuration parameters (config.go parameters)

vars == <<packageInfo, flag, applicationDirectory, contentsDir, macosDir, resourcesDir,
          javaDir, runtimeDir, fs, pc, exitCode, stages, calls, subprocs, parameters>>

layout == <<applicationDirectory, contentsDir, macosDir, resourcesDir, javaDir, runtimeDir>>

(***************************************************************************)
(* Paths and the filesystem                                                *)
(***************************************************************************)

\* A file or directory name as a path: the empty name is the empty path.
P(name) == IF name = "" THEN << >> ELSE <<name>>

\* filepath.Join: empty elements are ignored.
Join(a, b) == a \o b

IsPrefix(p, q) == Len(p) <= Len(q) /\ SubSeq(q, 1, Len(p)) = p

\* The entries of f at or below path.
Under(path, f) == {q \in DOMAIN f : IsPrefix(path, q)}

Restrict(f, S) == [q \in S |-> f[q]]

Put(f, path, entry) == [q \in DOMAIN f \cup {path} |-> IF q = path THEN entry ELSE f[q]]

DirEntry(mode) == [kind |-> "dir", content |-> "", mode |-> mode]
FileEntry(content, mode) == [kind |-> "file", content |-> content, mode |-> mode]

IsDir(path, f) == path \in DOMAIN f /\ f[path].kind = "dir"

\* os.Stat(path) reports that the path does not exist.
NotExist(path, f) == path \notin DOMAIN f

\* The proper non-empty prefixes of a path.
Parents(path) == {SubSeq(path, 1, n) : n \in 1..(Len(path) - 1)}

\* A symbolic link: content is the link's target as written in the link.
LinkEntry(target) == [kind |-> "link", content |-> target, mode |-> "0777"]

ParentOf(path) == SubSeq(path, 1, Len(path) - 1)

\* A path string split at its slashes.
RECURSIVE SplitPath(_)
SplitPath(str) ==
    IF str = "" THEN << >>
    ELSE LET slashes == {n \in 1..Len(str) : SubSeq(str, n, n) = "/"} IN
         IF slashes = {} THEN <<str>>
         ELSE LET n == CHOOSE m \in slashes : \A k \in slashes : m <= k IN
              P(SubSeq(str, 1, n - 1)) \o SplitPath(SubSeq(str, n + 1, Len(str)))

\* The kernel follows at most this many symbolic links while it resolves one path
\* (MAXSYMLINKS); one more is the error ELOOP.
MaxSymlinks == 2

\* A variant of Walk that stops two links later.
RECURSIVE WalkLateLimit(_, _, _, _, _)
WalkLateLimit(done, rest, followed, final, f) ==
    IF rest = << >>
    THEN [err |-> "nil", path |-> done]
    ELSE LET c == Head(rest)
             q == Append(done, c)
         IN  IF c = "."
             THEN WalkLateLimit(done, Tail(rest), followed, final, f)
             ELSE IF c = ".."
             THEN WalkLateLimit(ParentOf(done), Tail(rest), followed, final, f)
             ELSE IF q \notin DOMAIN f
             THEN [err |-> "ENOENT", path |-> q]
             ELSE IF f[q].kind = "link" /\ (final \/ Tail(rest) # << >>)
             THEN IF followed >= MaxSymlinks + 2
                  THEN [err |-> "ELOOP", path |-> q]
                  ELSE WalkLateLimit(done, SplitPath(f[q].content) \o Tail(rest),
                                     followed + 1, final, f)
             ELSE IF Tail(rest) # << >> /\ f[q].kind # "dir"
             THEN [err |-> "ENOTDIR", path |-> q]
             ELSE WalkLateLimit(q, Tail(rest), followed, final, f)

\* Path resolution: the components rest looked up from the directory done, after
\* followed links were followed; the last component is followed too when final is
\* TRUE (stat) and not when it is FALSE (lstat).
RECURSIVE Walk(_, _, _, _, _)
Walk(done, rest, followed, final, f) ==
    IF rest = << >>
    THEN [err |-> "nil", path |-> done]
    ELSE LET c == Head(rest)
             q == Append(done, c)
         IN  IF c = "."
             THEN Walk(done, Tail(rest), followed, final, f)
             ELSE IF c = ".."
             THEN Walk(ParentOf(done), Tail(rest), followed, final, f)
             ELSE IF q \notin DOMAIN f
             THEN [err |-> "ENOENT", path |-> q]
             ELSE IF f[q].kind = "link" /\ (final \/ Tail(rest) # << >>)
             THEN IF followed >= MaxSymlinks
                  THEN [err |-> "ELOOP", path |-> q]
                  ELSE Walk(done, SplitPath(f[q].content) \o Tail(rest), followed + 1,
                            final, f)
             ELSE IF Tail(rest) # << >> /\ f[q].kind # "dir"
             THEN [err |-> "ENOTDIR", path |-> q]
             ELSE Walk(q, Tail(rest), followed, final, f)

\* os.Stat(path): the entry the path leads to, links followed.
Stat(path, f) ==
    LET r == Walk(<< >>, path, 0, TRUE, f) IN
    IF r.err # "nil" THEN [err |-> r.err, path |-> r.path, entry |-> DirEntry("")]
    ELSE [err |-> "nil", path |-> r.path, entry |-> f[r.path]]

\* The entry itself, a link not followed (DirEntry.Info, os.Lstat).
Lstat(path, f) ==
    LET r == Walk(<< >>, path, 0, FALSE, f) IN
    IF r.err # "nil" THEN [err |-> r.err, path |-> r.path, entry |-> DirEntry("")]
    ELSE [err |-> "nil", path |-> r.path, entry |-> f[r.path]]

\* os.MkdirAll(path, 0755): nothing to do when the directory exists; an error when
\* the path or one of its parents is not a directory; otherwise the directory and
\* its missing parents are created, unless the system call fails.
MkdirAll(path, f) ==
    IF IsDir(path, f)
    THEN {[err |-> "nil", fs |-> f]}
    ELSE IF path = << >> \/ \E q \in Parents(path) \cup {path} : q \in DOMAIN f /\ ~IsDir(q, f)
    THEN {[err |-> "ENOTDIR", fs |-> f]}
    ELSE {[err |-> "nil",
           fs |-> [q \in DOMAIN f \cup Parents(path) \cup {path} |->
                     IF q \in DOMAIN f THEN f[q] ELSE DirEntry("0755")]],
          [err |-> "EIO", fs |-> f]}

\* os.RemoveAll(path): the empty path and a path that does not exist are no error
\* and change nothing; otherwise everything at or below path is removed, unless
\* the removal fails, and then either nothing was removed or one entry that could
\* not be removed is left with the directories above it.
RemoveAll(path, f) ==
    IF path = << >> \/ path \notin DOMAIN f
    THEN {[err |-> "nil", fs |-> f]}
    ELSE {[err |-> "nil", fs |-> Restrict(f, DOMAIN f \ Under(path, f))]}
         \cup {[err |-> "ERemove", fs |-> f]}
         \cup {[err |-> "ERemove",
                fs |-> Restrict(f, (DOMAIN f \ Under(path, f))
                                   \cup {q \in Under(path, f) : IsPrefix(q, e)})] :
               e \in Under(path, f)}

(***************************************************************************)
(* The descriptor and its getters (readDescriptionFile.go)                 *)
(***************************************************************************)

GetBundleIdentifier == packageInfo.BundleIdentifier
GetBundleName == packageInfo.BundleName
GetBundleVersion == packageInfo.BundleVersion
GetBundleExecutable == packageInfo.BundleExecutable
GetMinimumMacOSVersion == packageInfo.MinimumMacOSVersion
GetIconFileName == packageInfo.IconFileName
GetIconFileDirectory == packageInfo.IconFileDirectory
GetPackageType ==
    IF packageInfo.BundlePackageType # "" THEN packageInfo.BundlePackageType ELSE "APP"
GetExecutableName == packageInfo.ExecFileName
GetExecutableDirectory == packageInfo.ExecFileDirectory
\* strings.ToLower on the spellings the descriptors use.
ToLower(s) == IF s \in {"true", "True", "TRUE"} THEN "true" ELSE s
GetUseLocalJava == ToLower(packageInfo.LocalJava) = "true"
GetJavaHomeDirectory == packageInfo.LocalJavaHome
GetBundleDisplayName == packageInfo.BundleDisplayName
GetBundleSignature == packageInfo.BundleSignature
GetCFBundleShortVersionString == packageInfo.CFBundleShortVersionString
GetNSHumanReadableCopyright == packageInfo.NSHumanReadableCopyright
GetNSMainNibFile == packageInfo.NSMainNibFile
GetNSPrincipalClass == packageInfo.NSPrincipalClass
GetLocalExecDirectory == packageInfo.LocalExecDirectory

\* The directory the payload is read from: local_exec_directory when given.
ExecPath ==
    IF GetLocalExecDirectory # "" THEN GetLocalExecDirectory ELSE GetExecutableDirectory

FullExecPath == Join(P(ExecPath), P(GetExecutableName))
FullIconPath == Join(P(GetIconFileDirectory), P(GetIconFileName))
JavaHomePath == P(GetJavaHomeDirectory)

\* A variant of ValidateConfiguration without its icon check.
ValidateConfigurationNoIcon(f) ==
    IF NotExist(FullExecPath, f) THEN "executable file not found"
    ELSE IF GetUseLocalJava /\ NotExist(JavaHomePath, f)
    THEN "local Java home directory not found"
    ELSE "nil"

\* ValidateConfiguration: the error it returns on filesystem f ("nil" for none).
ValidateConfiguration(f) ==
    IF NotExist(FullExecPath, f) THEN "executable file not found"
    ELSE IF GetIconFileName # "" /\ NotExist(FullIconPath, f) THEN "icon file not found"
    ELSE IF GetUseLocalJava /\ NotExist(JavaHomePath, f)
    THEN "local Java home directory not found"
    ELSE "nil"

(***************************************************************************)
(* The bundle layout (directoryManagement.go)                              *)
(***************************************************************************)

\* A call of an operation of package application, as recorded in calls.
Call(op, by, arg, err, pre, post, layoutPre, layoutPost, mkdirs) ==
    [op |-> op, by |-> by, arg |-> arg, err |-> err, pre |-> pre, post |-> post,
     layoutPre |-> layoutPre, layoutPost |-> layoutPost, mkdirs |-> mkdirs]

\* The six layout paths CreateDirectoryStructure derives from the root name.
LayoutFor(applicationRoot) ==
    LET root == <<applicationRoot \o ".app">>
        contents == Join(root, <<"Contents">>)
        java == Join(contents, <<"Java">>)
    IN  <<root, contents, Join(contents, <<"MacOS">>), Join(contents, <<"Resources">>),
          java, Join(java, <<"runtime">>)>>

\* createDir(path): os.MkdirAll(path, 0755), its error returned.
createDir(path, f) == MkdirAll(path, f)

\* A variant of DeleteAll that reports a root that does not exist, as os.Remove does.
DeleteAllLikeRemove(appDir, f) ==
    IF appDir \notin DOMAIN f THEN {[err |-> "ENOENT", fs |-> f]} ELSE RemoveAll(appDir, f)

\* A variant of DeleteAll that removes the Contents directory, not the bundle root.
DeleteAllContentsOnly(appDir, f) == RemoveAll(Join(appDir, <<"Contents">>), f)

\* DeleteAll with applicationDirectory = appDir: os.RemoveAll, its error returned.
DeleteAll(appDir, f) == RemoveAll(appDir, f)

\* A variant of CreateFailure that returns without the teardown.
CreateFailureNoTeardown(creationError, lay, done, f) ==
    {[err |-> creationError, fs |-> f, mkdirs |-> done, teardown |-> << >>]}

\* A variant of CreateFailure that returns the teardown's error when there is one.
CreateFailureTeardownError(creationError, lay, done, f) ==
    {[err |-> IF d.err # "nil" THEN d.err ELSE creationError, fs |-> d.fs, mkdirs |-> done,
      teardown |-> <<Call("DeleteAll", "CreateDirectoryStructure", lay[1], d.err, f, d.fs,
                          lay, lay, << >>)>>] : d \in DeleteAll(lay[1], f)}

\* The failure path of one creation step: DeleteAll(), then the creation error.
CreateFailure(creationError, lay, done, f) ==
    {[err |-> creationError, fs |-> d.fs, mkdirs |-> done,
      teardown |-> <<Call("DeleteAll", "CreateDirectoryStructure", lay[1], d.err, f, d.fs,
                          lay, lay, << >>)>>] : d \in DeleteAll(lay[1], f)}

\* The six creation steps from step i on; done lists the paths createDir was
\* called with so far.
RECURSIVE CreateSteps(_, _, _, _)
CreateSteps(lay, i, done, f) ==
    IF i > Len(lay)
    THEN {[err |-> "nil", fs |-> f, mkdirs |-> done, teardown |-> << >>]}
    ELSE UNION {IF m.err = "nil"
                THEN CreateSteps(lay, i + 1, Append(done, lay[i]), m.fs)
                ELSE CreateFailure(m.err, lay, Append(done, lay[i]), m.fs) :
                m \in createDir(lay[i], f)}

WithLayout(r, lay) ==
    [err |-> r.err, fs |-> r.fs, mkdirs |-> r.mkdirs, teardown |-> r.teardown, layout |-> lay]

\* A variant of CreateDirectoryStructure that assigns the layout paths before it
\* checks the name.
CreateDirectoryStructureAssignFirst(applicationRoot, lay, f) ==
    IF applicationRoot # ""
    THEN {WithLayout(r, LayoutFor(applicationRoot)) :
          r \in CreateSteps(LayoutFor(applicationRoot), 1, << >>, f)}
    ELSE {[err |-> "Application root directory cannot be empty", fs |-> f,
           mkdirs |-> << >>, teardown |-> << >>, layout |-> LayoutFor(applicationRoot)]}

\* A variant of CreateDirectoryStructure that creates Contents/Java/runtime before
\* Contents/Java.
CreateDirectoryStructureSwapped(applicationRoot, lay, f) ==
    IF applicationRoot # ""
    THEN LET l == LayoutFor(applicationRoot) IN
         {WithLayout(r, l) :
          r \in CreateSteps(<<l[1], l[2], l[3], l[4], l[6], l[5]>>, 1, << >>, f)}
    ELSE {[err |-> "Application root directory cannot be empty", fs |-> f,
           mkdirs |-> << >>, teardown |-> << >>, layout |-> lay]}

\* CreateDirectoryStructure(applicationRoot) with the layout variables at lay:
\* its outcomes, each with the error returned, the filesystem and layout left,
\* the createDir calls made and the DeleteAll call made.
CreateDirectoryStructure(applicationRoot, lay, f) ==
    IF applicationRoot # ""
    THEN {WithLayout(r, LayoutFor(applicationRoot)) :
          r \in CreateSteps(LayoutFor(applicationRoot), 1, << >>, f)}
    ELSE {[err |-> "Application root directory cannot be empty", fs |-> f,
           mkdirs |-> << >>, teardown |-> << >>, layout |-> lay]}

(***************************************************************************)
(* File primitives (package os, fileManagement)                            *)
(***************************************************************************)

\* os.Create(path): the file is created empty, or truncated when it exists.
OsCreate(path, f) ==
    IF path = << >> \/ (Len(path) > 1 /\ ~IsDir(ParentOf(path), f))
    THEN {[err |-> "ENOENT", fs |-> f]}
    ELSE IF IsDir(path, f)
    THEN {[err |-> "EISDIR", fs |-> f]}
    ELSE {[err |-> "nil",
           fs |-> Put(f, path, FileEntry("", IF path \in DOMAIN f THEN f[path].mode
                                                                     ELSE "0644"))],
          [err |-> "EIO", fs |-> f]}

\* file.WriteString / io.Copy into the open file at path.
Write(path, content, f) ==
    {[err |-> "nil", fs |-> Put(f, path, [f[path] EXCEPT !.content = content])],
     [err |-> "EIO", fs |-> f]}

\* os.Chmod(path, mode).
Chmod(path, mode, f) ==
    IF path \notin DOMAIN f
    THEN {[err |-> "ENOENT", fs |-> f]}
    ELSE {[err |-> "nil", fs |-> Put(f, path, [f[path] EXCEPT !.mode = mode])],
          [err |-> "EPERM", fs |-> f]}

\* Sequencing: the outcomes of step, then of next on the filesystem step left;
\* the first error ends the sequence.
Then(step, next(_)) ==
    UNION {IF o.err = "nil" THEN next(o.fs) ELSE {o} : o \in step}

\* fileManagement.Copy(srcFile, dstFile): create the destination, open the
\* source (a link is followed), copy the content.
Copy(srcFile, dstFile, f) ==
    LET open(g) == LET in == Stat(srcFile, g) IN
                   IF in.err # "nil"
                   THEN {[err |-> in.err, fs |-> g]}
                   ELSE IF in.entry.kind = "dir"
                   THEN {[err |-> "EISDIR", fs |-> g]}
                   ELSE Write(dstFile, in.entry.content, g)
    IN  Then(OsCreate(dstFile, f), open)

\* The names the model's directories hold, in the order os.ReadDir lists them.
SortedNames == <<"bin", "current", "java", "loop", "release">>

IndexOf(name) == CHOOSE i \in 1..Len(SortedNames) : SortedNames[i] = name

\* os.ReadDir(dir): the entries of dir, sorted by name.
RECURSIVE SortByName(_)
SortByName(S) ==
    IF S = {} THEN << >>
    ELSE LET first == CHOOSE q \in S :
                          \A r \in S : IndexOf(q[Len(q)]) <= IndexOf(r[Len(r)])
         IN  <<first>> \o SortByName(S \ {first})

ReadDir(dir, f) == SortByName({q \in DOMAIN f : Len(q) = Len(dir) + 1 /\ IsPrefix(dir, q)})

\* fileManagement.CreateIfNotExists(dir, 0755).
CreateIfNotExists(dir, f) ==
    IF ~NotExist(dir, f) THEN {[err |-> "nil", fs |-> f]} ELSE MkdirAll(dir, f)

\* os.Lchown(path, uid, gid): it may be refused.
Lchown(path, f) == {[err |-> "nil", fs |-> f], [err |-> "EPERM", fs |-> f]}

\* fileManagement.CopySymLink(source, dest): os.Readlink, then os.Symlink.
CopySymLink(source, dest, f) ==
    LET link == Lstat(source, f) IN
    IF link.err # "nil"
    THEN {[err |-> link.err, fs |-> f]}
    ELSE IF link.entry.kind # "link"
    THEN {[err |-> "EINVAL", fs |-> f]}
    ELSE IF dest \in DOMAIN f
    THEN {[err |-> "EEXIST", fs |-> f]}
    ELSE {[err |-> "nil", fs |-> Put(f, dest, LinkEntry(link.entry.content))],
          [err |-> "EIO", fs |-> f]}

\* The outcomes of a system call as a part of CopyDirectory's outcomes.
NoVisit(S) == {[err |-> o.err, fs |-> o.fs, visited |-> << >>] : o \in S}

\* Sequencing inside CopyDirectory: as Then, the source entries visited added up.
ThenCopy(step, next(_)) ==
    UNION {IF o.err = "nil"
           THEN {[err |-> n.err, fs |-> n.fs, visited |-> o.visited \o n.visited] :
                 n \in next(o.fs)}
           ELSE {o} :
           o \in step}

\* fileManagement.CopyDirectory(scrDir, dest): each entry of scrDir in turn is
\* looked at with os.Stat, copied as what os.Stat says it is (a directory
\* recursively), then given the source's owner and, unless the entry is a link,
\* the entry's mode.  visited lists the source paths looked at, in order.
RECURSIVE CopyDirectory(_, _, _)
RECURSIVE CopyEntries(_, _, _, _)
CopyEntries(entries, scrDir, dest, f) ==
    IF entries = << >>
    THEN {[err |-> "nil", fs |-> f, visited |-> << >>]}
    ELSE LET sourcePath == Join(scrDir, <<Head(entries)>>)
             destPath == Join(dest, <<Head(entries)>>)
             fileInfo == Stat(sourcePath, f)
             fInfo == Lstat(sourcePath, f)
             stat == {[err |-> fileInfo.err, fs |-> f, visited |-> <<sourcePath>>]}
             copy(g) == IF fileInfo.entry.kind = "dir"
                        THEN ThenCopy(NoVisit(CreateIfNotExists(destPath, g)),
                                      LAMBDA h : CopyDirectory(sourcePath, destPath, h))
                        ELSE IF fileInfo.entry.kind = "link"
                        THEN NoVisit(CopySymLink(sourcePath, destPath, g))
                        ELSE NoVisit(Copy(sourcePath, destPath, g))
             chown(g) == NoVisit(Lchown(destPath, g))
             chmod(g) == IF fInfo.entry.kind = "link"
                        THEN {[err |-> "nil", fs |-> g, visited |-> << >>]}
                        ELSE NoVisit(Chmod(destPath, fInfo.entry.mode, g))
             rest(g) == CopyEntries(Tail(entries), scrDir, dest, g)
         IN  ThenCopy(ThenCopy(ThenCopy(ThenCopy(stat, copy), chown), chmod), rest)

CopyDirectory(scrDir, dest, f) ==
    LET dir == Stat(scrDir, f)
        entries == ReadDir(dir.path, f)
    IN  IF dir.err # "nil"
        THEN {[err |-> dir.err, fs |-> f, visited |-> << >>]}
        ELSE IF dir.entry.kind # "dir"
        THEN {[err |-> "ENOTDIR", fs |-> f, visited |-> << >>]}
        ELSE CopyEntries([n \in 1..Len(entries) |-> entries[n][Len(entries[n])]],
                         scrDir, dest, f)

(***************************************************************************)
(* Metadata (CreatePlist, CreatePkgInfo, cleanAfterError)                  *)
(***************************************************************************)

NoTeardown(o) == [err |-> o.err, fs |-> o.fs, teardown |-> << >>]

\* cleanAfterError(err) called by operation by: DeleteAll() when the root is set.
cleanAfterError(err, by, f) ==
    IF applicationDirectory # << >>
    THEN {[err |-> err, fs |-> d.fs,
           teardown |-> <<Call("DeleteAll", by, applicationDirectory, d.err, f, d.fs,
                               layout, layout, << >>)>>] :
          d \in DeleteAll(applicationDirectory, f)}
    ELSE {[err |-> err, fs |-> f, teardown |-> << >>]}

\* A variant of PkgInfoContent that writes the signature whatever its length.
PkgInfoContentRawSignature ==
    LET packageType == IF Len(GetPackageType) # 4 THEN "APPL" ELSE GetPackageType
    IN  packageType \o GetBundleSignature

\* The eight bytes CreatePkgInfo writes.
PkgInfoContent ==
    LET packageType == IF Len(GetPackageType) # 4 THEN "APPL" ELSE GetPackageType
        signature == IF Len(GetBundleSignature) # 4 THEN "????" ELSE GetBundleSignature
    IN  packageType \o signature

PkgInfoFileName == Join(contentsDir, <<"PkgInfo">>)
PlistFileName == Join(contentsDir, <<"Info.plist">>)

CreatePkgInfo(f) ==
    UNION {IF c.err # "nil"
           THEN cleanAfterError(c.err, "CreatePkgInfo", c.fs)
           ELSE {NoTeardown(w) : w \in Write(PkgInfoFileName, PkgInfoContent, c.fs)} :
           c \in OsCreate(PkgInfoFileName, f)}

\* One key of plistTemplate with its value.
PlistKey(key, value) == "<key>" \o key \o "</key>\n<string>" \o value \o "</string>\n"

\* A variant of PlistContent that emits NSMainNibFile whatever its value.
PlistContentAlwaysNib ==
    "<plist version=\"1.0\">\n<dict>\n"
    \o PlistKey("CFBundleIdentifier", GetBundleIdentifier)
    \o PlistKey("CFBundleName", GetBundleName)
    \o PlistKey("CFBundleDisplayName", GetBundleDisplayName)
    \o PlistKey("CFBundleVersion", GetBundleVersion)
    \o PlistKey("CFBundleShortVersionString", GetCFBundleShortVersionString)
    \o PlistKey("CFBundleExecutable", GetBundleExecutable)
    \o PlistKey("CFBundleSignature", GetBundleSignature)
    \o PlistKey("LSMinimumSystemVersion", GetMinimumMacOSVersion)
    \o PlistKey("CFBundleIconFile", GetIconFileName)
    \o PlistKey("CFBundlePackageType", GetPackageType)
    \o PlistKey("NSHumanReadableCopyright", GetNSHumanReadableCopyright)
    \o (IF GetNSPrincipalClass # "" THEN PlistKey("NSPrincipalClass", GetNSPrincipalClass)
                                    ELSE "")
    \o PlistKey("NSMainNibFile", GetNSMainNibFile)
    \o "</dict>\n</plist>"

\* plistTemplate executed on the descriptor.
PlistContent ==
    "<plist version=\"1.0\">\n<dict>\n"
    \o PlistKey("CFBundleIdentifier", GetBundleIdentifier)
    \o PlistKey("CFBundleName", GetBundleName)
    \o PlistKey("CFBundleDisplayName", GetBundleDisplayName)
    \o PlistKey("CFBundleVersion", GetBundleVersion)
    \o PlistKey("CFBundleShortVersionString", GetCFBundleShortVersionString)
    \o PlistKey("CFBundleExecutable", GetBundleExecutable)
    \o PlistKey("CFBundleSignature", GetBundleSignature)
    \o PlistKey("LSMinimumSystemVersion", GetMinimumMacOSVersion)
    \o PlistKey("CFBundleIconFile", GetIconFileName)
    \o PlistKey("CFBundlePackageType", GetPackageType)
    \o PlistKey("NSHumanReadableCopyright", GetNSHumanReadableCopyright)
    \o (IF GetNSPrincipalClass # "" THEN PlistKey("NSPrincipalClass", GetNSPrincipalClass)
                                    ELSE "")
    \o (IF GetNSMainNibFile # "" THEN PlistKey("NSMainNibFile", GetNSMainNibFile) ELSE "")
    \o "</dict>\n</plist>"

\* The mandatory-field check of CreatePlist.
MandatoryMissing ==
    \/ GetBundleIdentifier = "" \/ GetBundleVersion = "" \/ GetBundleName = ""
    \/ GetBundleExecutable = "" \/ GetMinimumMacOSVersion = "" \/ GetIconFileName = ""

\* A variant of CreatePlist without the mandatory-field check.
CreatePlistNoCheck(f) ==
    UNION {IF k.err # "nil"
           THEN {k}
           ELSE UNION {IF c.err # "nil"
                       THEN cleanAfterError(c.err, "CreatePlist", c.fs)
                       ELSE UNION {IF w.err # "nil"
                                   THEN cleanAfterError(w.err, "CreatePlist", w.fs)
                                   ELSE {NoTeardown(w)} :
                                   w \in Write(PlistFileName, PlistContent, c.fs)} :
                       c \in OsCreate(PlistFileName, k.fs)} :
           k \in CreatePkgInfo(f)}

\* CreatePlist: PkgInfo first, then the mandatory-field check, then Info.plist.
CreatePlist(f) ==
    UNION {IF k.err # "nil"
           THEN {k}
           ELSE IF MandatoryMissing
           THEN {[err |-> "Info.plist <mandatory fields missing>", fs |-> k.fs,
                  teardown |-> << >>]}
           ELSE UNION {IF c.err # "nil"
                       THEN cleanAfterError(c.err, "CreatePlist", c.fs)
                       ELSE UNION {IF w.err # "nil"
                                   THEN cleanAfterError(w.err, "CreatePlist", w.fs)
                                   ELSE {NoTeardown(w)} :
                                   w \in Write(PlistFileName, PlistContent, c.fs)} :
                       c \in OsCreate(PlistFileName, k.fs)} :
           k \in CreatePkgInfo(f)}

(***************************************************************************)
(* Payload staging (copyExecutable.go) and icon staging (CopyIcon)         *)
(***************************************************************************)

\* strings.HasSuffix.
HasSuffix(str, suffix) ==
    Len(str) >= Len(suffix) /\ SubSeq(str, Len(str) - Len(suffix) + 1, Len(str)) = suffix

\* A variant of StartString that writes the system-Java script whatever local_java is.
StartStringSystemJava(execFile) ==
    "#!/bin/bash\n\nDIR=\"$(cd \"$(dirname \"$0\")\" && pwd)\"\n"
    \o "java -jar \"$DIR/" \o execFile \o "\"\n"

\* The launcher script copyJarExec writes for the JAR execFile.
StartString(execFile) ==
    IF GetUseLocalJava
    THEN "#!/bin/bash\n\nDIR=\"$(cd \"$(dirname \"$0\")\" && pwd)\"\n"
         \o "export JAVA_HOME=\"$DIR/../Java/runtime\"\n"
         \o "\"$JAVA_HOME/bin/java\" -jar \"$DIR/" \o execFile \o "\"\n"
    ELSE "#!/bin/bash\n\nDIR=\"$(cd \"$(dirname \"$0\")\" && pwd)\"\n"
         \o "java -jar \"$DIR/" \o execFile \o "\"\n"

\* A call made by copyJarExec, as recorded in calls.
Step(op, arg, err, pre, post) ==
    Call(op, "copyJarExec", arg, err, pre, post, layout, layout, << >>)

\* The outcomes so far, then the call op(arg) on the filesystem each left; an
\* error returns from copyJarExec.
ThenStep(sofar, op, arg, call(_)) ==
    UNION {IF o.err # "nil"
           THEN {o}
           ELSE {[err |-> n.err, fs |-> n.fs,
                  trace |-> Append(o.trace, Step(op, arg, n.err, o.fs, n.fs))] :
                 n \in call(o.fs)} :
           o \in sofar}

\* A variant of copyJarExec that copies the JAR before the Java runtime.
copyJarExecJarFirst(execPath, execFile, f) ==
    LET executableName == Join(macosDir, P(GetBundleExecutable))
        start == {[err |-> "nil", fs |-> f, trace |-> << >>]}
        jar == ThenStep(start, "Copy", Join(P(execPath), P(execFile)),
                        LAMBDA g : Copy(Join(P(execPath), P(execFile)),
                                        Join(macosDir, P(execFile)), g))
        runtime == IF GetUseLocalJava
                   THEN ThenStep(jar, "CopyDirectory", JavaHomePath,
                                 LAMBDA g : CopyDirectory(JavaHomePath,
                                                          Join(javaDir, <<"runtime">>), g))
                   ELSE jar
        create == ThenStep(runtime, "os.Create", executableName,
                           LAMBDA g : OsCreate(executableName, g))
        write == ThenStep(create, "WriteString", executableName,
                          LAMBDA g : Write(executableName, StartString(execFile), g))
    IN  ThenStep(write, "os.Chmod", executableName,
                 LAMBDA g : Chmod(executableName, "0755", g))

\* copyJarExec: the Java runtime when local Java is on, the JAR, the launcher
\* script; each outcome with the calls made, in order.
copyJarExec(execPath, execFile, f) ==
    LET executableName == Join(macosDir, P(GetBundleExecutable))
        start == {[err |-> "nil", fs |-> f, trace |-> << >>]}
        runtime == IF GetUseLocalJava
                   THEN ThenStep(start, "CopyDirectory", JavaHomePath,
                                 LAMBDA g : CopyDirectory(JavaHomePath,
                                                          Join(javaDir, <<"runtime">>), g))
                   ELSE start
        jar == ThenStep(runtime, "Copy", Join(P(execPath), P(execFile)),
                        LAMBDA g : Copy(Join(P(execPath), P(execFile)),
                                        Join(macosDir, P(execFile)), g))
        create == ThenStep(jar, "os.Create", executableName,
                           LAMBDA g : OsCreate(executableName, g))
        write == ThenStep(create, "WriteString", executableName,
                          LAMBDA g : Write(executableName, StartString(execFile), g))
    IN  ThenStep(write, "os.Chmod", executableName,
                 LAMBDA g : Chmod(executableName, "0755", g))

\* A variant of copyCompExec without the os.Chmod.
copyCompExecNoChmod(execPath, execFile, f) ==
    Copy(Join(P(execPath), P(execFile)), Join(macosDir, P(execFile)), f)

\* copyCompExec: the binary copied, then made executable.
copyCompExec(execPath, execFile, f) ==
    LET executablePath == Join(macosDir, P(execFile))
        chmod(g) == Chmod(executablePath, "0755", g)
    IN  Then(Copy(Join(P(execPath), P(execFile)), executablePath, f), chmod)

\* The return of a strategy called by CopyExecutable, as recorded in calls.
Returned(strategy, err, pre, post) ==
    Call(strategy, "CopyExecutable", GetExecutableName, err, pre, post, layout, layout, << >>)

\* A variant of StagePayload that takes the suffix in either case.
StagePayloadAnyCase(f) ==
    IF HasSuffix(GetExecutableName, "jar") \/ HasSuffix(GetExecutableName, "JAR")
    THEN {[strategy |-> "jar", inner |-> o.err, fs |-> o.fs,
           trace |-> Append(o.trace, Returned("copyJarExec", o.err, f, o.fs))] :
          o \in copyJarExec(ExecPath, GetExecutableName, f)}
    ELSE {[strategy |-> "binary", inner |-> o.err, fs |-> o.fs,
           trace |-> <<Returned("copyCompExec", o.err, f, o.fs)>>] :
          o \in copyCompExec(ExecPath, GetExecutableName, f)}

\* The strategy's outcomes: each with the strategy that ran and its error.
StagePayload(f) ==
    IF HasSuffix(GetExecutableName, "jar")
    THEN {[strategy |-> "jar", inner |-> o.err, fs |-> o.fs,
           trace |-> Append(o.trace, Returned("copyJarExec", o.err, f, o.fs))] :
          o \in copyJarExec(ExecPath, GetExecutableName, f)}
    ELSE {[strategy |-> "binary", inner |-> o.err, fs |-> o.fs,
           trace |-> <<Returned("copyCompExec", o.err, f, o.fs)>>] :
          o \in copyCompExec(ExecPath, GetExecutableName, f)}

\* A variant of CopyExecutable that returns the strategy's error.
CopyExecutableReturnsError(f) ==
    {[err |-> o.inner, strategy |-> o.strategy, inner |-> o.inner, fs |-> o.fs,
      trace |-> o.trace] :
     o \in StagePayload(f)}

\* CopyExecutable: the strategy's error is logged and nil is returned.
CopyExecutable(f) ==
    {[err |-> "nil", strategy |-> o.strategy, inner |-> o.inner, fs |-> o.fs,
      trace |-> o.trace] :
     o \in StagePayload(f)}

\* A variant of CopyIcon that gives the copy the mode 0644.
CopyIconFixedMode(f) ==
    LET iconPath == Join(resourcesDir, P(GetIconFileName))
        iconSource == FullIconPath
        copy(g) == Write(iconPath, g[iconSource].content, g)
        chmod(g) == Chmod(iconPath, "0644", g)
    IN  IF GetIconFileName = ""
        THEN {[err |-> "icon filename is not defined", fs |-> f]}
        ELSE IF iconSource \notin DOMAIN f
        THEN {[err |-> "ENOENT", fs |-> f]}
        ELSE IF IsDir(iconSource, f)
        THEN Then(OsCreate(iconPath, f), LAMBDA g : {[err |-> "EISDIR", fs |-> g]})
        ELSE Then(Then(OsCreate(iconPath, f), copy), chmod)

\* CopyIcon: the icon copied into Contents/Resources with the source's mode.
CopyIcon(f) ==
    LET iconPath == Join(resourcesDir, P(GetIconFileName))
        iconSource == FullIconPath
        copy(g) == Write(iconPath, g[iconSource].content, g)
        chmod(g) == Chmod(iconPath, g[iconSource].mode, g)
    IN  IF GetIconFileName = ""
        THEN {[err |-> "icon filename is not defined", fs |-> f]}
        ELSE IF iconSource \notin DOMAIN f
        THEN {[err |-> "ENOENT", fs |-> f]}
        ELSE IF IsDir(iconSource, f)
        THEN Then(OsCreate(iconPath, f), LAMBDA g : {[err |-> "EISDIR", fs |-> g]})
        ELSE Then(Then(OsCreate(iconPath, f), copy), chmod)

(***************************************************************************)
(* Signing and notarization (signApplication.go)                           *)
(***************************************************************************)

\* What a run of SignApplication can meet: which tools are on the PATH, whether
\* the keychain lists an identity, and how the subprocesses exit.
SignEnvs ==
    [codesign : BOOLEAN, security : BOOLEAN, securityExit : {0, 1}, identity : BOOLEAN,
     signExit : {0, 1}, verifyExit : {0, 1}]

Proc(tool, verb, target) == [tool |-> tool, verb |-> verb, target |-> target]

\* VerifyApplicationSignature(appPath) in environment env.
VerifyApplicationSignature(appPath, env) ==
    IF ~env.codesign
    THEN [err |-> "program codesign not found in PATH", procs |-> << >>]
    ELSE [err |-> IF env.verifyExit # 0 THEN "signature verification failed" ELSE "nil",
          procs |-> <<Proc("codesign", "--verify", appPath)>>]

\* A variant of SignApplication that verifies whatever the signing subprocess returned.
SignApplicationAlwaysVerifies(env) ==
    IF ~env.codesign
    THEN [err |-> "program codesign not found in PATH", procs |-> << >>]
    ELSE IF ~env.security
    THEN [err |-> "program security not found in PATH", procs |-> << >>]
    ELSE IF env.securityExit # 0
    THEN [err |-> "failed to run security tool",
          procs |-> <<Proc("security", "find-identity", << >>)>>]
    ELSE IF ~env.identity
    THEN [err |-> "no valid code signing identity found in keychain",
          procs |-> <<Proc("security", "find-identity", << >>)>>]
    ELSE LET v == VerifyApplicationSignature(applicationDirectory, env) IN
         [err |-> v.err,
          procs |-> <<Proc("security", "find-identity", << >>),
                      Proc("codesign", "--sign", applicationDirectory)>> \o v.procs]

\* SignApplication in environment env: the error returned and the subprocesses started.
SignApplication(env) ==
    IF ~env.codesign
    THEN [err |-> "program codesign not found in PATH", procs |-> << >>]
    ELSE IF ~env.security
    THEN [err |-> "program security not found in PATH", procs |-> << >>]
    ELSE IF env.securityExit # 0
    THEN [err |-> "failed to run security tool",
          procs |-> <<Proc("security", "find-identity", << >>)>>]
    ELSE IF ~env.identity
    THEN [err |-> "no valid code signing identity found in keychain",
          procs |-> <<Proc("security", "find-identity", << >>)>>]
    ELSE IF env.signExit # 0
    THEN [err |-> "failed to sign",
          procs |-> <<Proc("security", "find-identity", << >>),
                      Proc("codesign", "--sign", applicationDirectory)>>]
    ELSE LET v == VerifyApplicationSignature(applicationDirectory, env) IN
         [err |-> v.err,
          procs |-> <<Proc("security", "find-identity", << >>),
                      Proc("codesign", "--sign", applicationDirectory)>> \o v.procs]

\* What a run of NotarizeApplication can meet.
NotarizeEnvs == [zip : BOOLEAN, xcrun : BOOLEAN, zipExit : {0, 1}, submitExit : {0, 1}]

\* NotarizeApplication(applicationRoot, appleIDProfile) in environment env: zip -r
\* of the path applicationRoot, which fails when nothing is there, then the
\* submission of the archive.
NotarizeApplication(applicationRoot, appleIDProfile, env, f) ==
    LET zipApplication == <<applicationRoot \o ".zip">>
        target == P(applicationRoot)
        zipProc == Proc("zip", "-r", target)
        zipped == Put(f, zipApplication, FileEntry("zip", "0644"))
    IN  IF ~env.zip
        THEN [err |-> "program zip not found in PATH", procs |-> << >>, fs |-> f]
        ELSE IF target \notin DOMAIN f \/ env.zipExit # 0
        THEN [err |-> "failed to zip app for notarization", procs |-> <<zipProc>>, fs |-> f]
        ELSE IF ~env.xcrun
        THEN [err |-> "program xcrun not found in PATH", procs |-> <<zipProc>>,
              fs |-> zipped]
        ELSE [err |-> IF env.submitExit # 0 THEN "notarization failed" ELSE "nil",
              procs |-> <<zipProc, Proc("xcrun", "notarytool submit", zipApplication)>>,
              fs |-> zipped]

(***************************************************************************)
(* The runs considered                                                     *)
(***************************************************************************)

\* At most this many of the six mandatory fields are empty in a descriptor.
MaxEmptyFields == 1

Mandatory ==
    {"BundleIdentifier", "BundleVersion", "BundleName", "BundleExecutable",
     "MinimumMacOSVersion", "IconFileName"}

\* The descriptor of the end-to-end scenario.
Sample ==
    [BundleIdentifier |-> "com.x.sample", BundleName |-> "Sample", BundleVersion |-> "1.0",
     BundleDisplayName |-> "", BundlePackageType |-> "", BundleExecutable |-> "launch",
     BundleSignature |-> "", ExecFileName |-> "app.jar", ExecFileDirectory |-> "dist",
     IconFileName |-> "icon.icns", IconFileDirectory |-> "assets",
     MinimumMacOSVersion |-> "10.13.0", CFBundleDocumentTypes |-> "",
     CFBundleShortVersionString |-> "", NSHumanReadableCopyright |-> "",
     NSMainNibFile |-> "", NSPrincipalClass |-> "", LocalJava |-> "false",
     LocalJavaHome |-> "jdk", LocalExecDirectory |-> ""]

Descriptors ==
    {[k \in DOMAIN Sample |->
        IF k \in empty THEN ""
        ELSE IF k = "ExecFileName" THEN exec
        ELSE IF k = "LocalJava" THEN java
        ELSE Sample[k]] :
     empty \in {E \in SUBSET Mandatory : Cardinality(E) <= MaxEmptyFields},
     exec \in {"app.jar", "tool"},
     java \in {"true", "false"}}

Flags ==
    [applicationNameFlag : {"my_app"}, cleanFlag : BOOLEAN, signFlag : BOOLEAN,
     deleteFlag : BOOLEAN, notariseFlag : BOOLEAN, appleIDProfileFlag : {"", "dev"}]

\* The source files: the payloads, the icon and the Java home, each there or not.
SourceFiles(payload, icon, jdk) ==
    [q \in {<<"dist">>, <<"assets">>}
           \cup (IF payload THEN {<<"dist", "app.jar">>, <<"dist", "tool">>} ELSE {})
           \cup (IF icon THEN {<<"assets", "icon.icns">>} ELSE {})
           \cup (IF jdk THEN {<<"jdk">>, <<"jdk", "bin">>, <<"jdk", "bin", "java">>} ELSE {})
     |-> IF q = <<"dist", "app.jar">> THEN FileEntry("jar bytes", "0644")
         ELSE IF q = <<"dist", "tool">> THEN FileEntry("tool bytes", "0644")
         ELSE IF q = <<"assets", "icon.icns">> THEN FileEntry("icon bytes", "0600")
         ELSE IF q = <<"jdk", "bin", "java">> THEN FileEntry("java bytes", "0555")
         ELSE DirEntry("0755")]

\* What is at Sample.app before the run: nothing, the bundle of an earlier build
\* with a file of that build in it, or a regular file.
Leftovers ==
    LET lay == LayoutFor("Sample")
        old == Join(lay[3], <<"old">>)
    IN  {<< >>,
         [q \in {lay[i] : i \in 1..6} \cup {old} |->
            IF q = old THEN FileEntry("old bytes", "0755") ELSE DirEntry("0755")],
         [q \in {lay[1]} |-> FileEntry("not a bundle", "0644")]}

Merge(f, g) == [q \in DOMAIN f \cup DOMAIN g |-> IF q \in DOMAIN f THEN f[q] ELSE g[q]]

Filesystems ==
    {Merge(SourceFiles(payload, icon, jdk), left) :
     payload \in BOOLEAN, icon \in BOOLEAN, jdk \in BOOLEAN, left \in Leftovers}

Init ==
    /\ packageInfo \in Descriptors
    /\ flag \in Flags
    /\ applicationDirectory = << >>
    /\ contentsDir = << >>
    /\ macosDir = << >>
    /\ resourcesDir = << >>
    /\ javaDir = << >>
    /\ runtimeDir = << >>
    /\ fs \in Filesystems
    /\ pc = "validate"
    /\ exitCode = -1
    /\ stages = << >>
    /\ calls = << >>
    /\ subprocs = << >>
    /\ parameters = << >>

(***************************************************************************)
(* main                                                                    *)
(***************************************************************************)

Stage(name, ok) == [stage |-> name, ok |-> ok]

\* The next position of main after a step that returned err: errorExit(err)
\* ends the process with status 1.
Continue(err, next) ==
    IF err # "nil"
    THEN pc' = "exit" /\ exitCode' = 1
    ELSE pc' = next /\ exitCode' = exitCode

\* Step 0: ValidateConfiguration; os.Exit(1) on an error.
Validate ==
    /\ pc = "validate"
    /\ LET err == ValidateConfiguration(fs) IN
        /\ stages' = Append(stages, Stage("Validate", err = "nil"))
        /\ calls' = Append(calls, Call("ValidateConfiguration", "main", << >>, err, fs, fs,
                                      layout, layout, << >>))
        /\ Continue(err, "clean")
    /\ UNCHANGED <<packageInfo, flag, layout, fs, subprocs, parameters>>

\* -clean: DeleteAll(), its result dropped.
Clean ==
    /\ pc = "clean"
    /\ IF flag.cleanFlag
       THEN \E d \in DeleteAll(applicationDirectory, fs) :
                /\ fs' = d.fs
                /\ calls' = Append(calls, Call("DeleteAll", "main", applicationDirectory,
                                              d.err, fs, d.fs, layout, layout, << >>))
       ELSE UNCHANGED <<fs, calls>>
    /\ pc' = "create"
    /\ UNCHANGED <<packageInfo, flag, layout, exitCode, stages, subprocs, parameters>>

\* Step 1: CreateDirectoryStructure(GetBundleName()).
Create ==
    /\ pc = "create"
    /\ \E o \in CreateDirectoryStructure(GetBundleName, layout, fs) :
        /\ applicationDirectory' = o.layout[1]
        /\ contentsDir' = o.layout[2]
        /\ macosDir' = o.layout[3]
        /\ resourcesDir' = o.layout[4]
        /\ javaDir' = o.layout[5]
        /\ runtimeDir' = o.layout[6]
        /\ fs' = o.fs
        /\ calls' = calls \o o.teardown
                    \o <<Call("CreateDirectoryStructure", "main", GetBundleName, o.err, fs,
                              o.fs, layout, o.layout, o.mkdirs)>>
        /\ stages' = Append(stages, Stage("CreateLayout", o.err = "nil"))
        /\ Continue(o.err, "plist")
    /\ UNCHANGED <<packageInfo, flag, subprocs, parameters>>

\* Step 2: CreatePlist().
Plist ==
    /\ pc = "plist"
    /\ \E o \in CreatePlist(fs) :
        /\ fs' = o.fs
        /\ calls' = calls \o o.teardown
                    \o <<Call("CreatePlist", "main", << >>, o.err, fs, o.fs, layout, layout,
                              << >>)>>
        /\ stages' = Append(stages, Stage("RenderMetadata", o.err = "nil"))
        /\ Continue(o.err, "exec")
    /\ UNCHANGED <<packageInfo, flag, layout, subprocs, parameters>>

\* Step 3: CopyExecutable().
Exec ==
    /\ pc = "exec"
    /\ \E o \in CopyExecutable(fs) :
        /\ fs' = o.fs
        /\ calls' = calls \o o.trace
                    \o <<Call("CopyExecutable", "main", o.strategy, o.err, fs, o.fs,
                              layout, layout, << >>)>>
        /\ stages' = Append(stages, Stage("StagePayload", o.inner = "nil"))
        /\ Continue(o.err, "icon")
    /\ UNCHANGED <<packageInfo, flag, layout, subprocs, parameters>>

\* Step 4: CopyIcon().
Icon ==
    /\ pc = "icon"
    /\ \E o \in CopyIcon(fs) :
        /\ fs' = o.fs
        /\ calls' = Append(calls, Call("CopyIcon", "main", << >>, o.err, fs, o.fs, layout,
                                      layout, << >>))
        /\ stages' = Append(stages, Stage("StageIcon", o.err = "nil"))
        /\ Continue(o.err, "sign")
    /\ UNCHANGED <<packageInfo, flag, layout, subprocs, parameters>>

\* Step 5: SignApplication() when -sign is given; it verifies after it signed.
Sign ==
    /\ pc = "sign"
    /\ IF flag.signFlag
       THEN \E env \in SignEnvs :
              LET r == SignApplication(env)
                  signed == \E i \in 1..Len(r.procs) : r.procs[i].verb = "--verify"
                  verifying == signed \/ (r.err = "program codesign not found in PATH"
                                          /\ r.procs # << >>)
              IN  /\ subprocs' = subprocs \o r.procs
                  /\ calls' = Append(calls, Call("SignApplication", "main", << >>, r.err,
                                                fs, fs, layout, layout, << >>))
                  /\ stages' = stages \o <<Stage("Sign", signed)>>
                               \o (IF verifying THEN <<Stage("Verify", r.err = "nil")>>
                                                ELSE << >>)
                  /\ Continue(r.err, "notarize")
       ELSE /\ pc' = "notarize"
            /\ UNCHANGED <<subprocs, calls, stages, exitCode>>
    /\ UNCHANGED <<packageInfo, flag, layout, fs, parameters>>

\* Step 6: NotarizeApplication(GetBundleName(), profile) when -notarize is given
\* with a profile; errorExit when the profile is empty.
Notarize ==
    /\ pc = "notarize"
    /\ IF flag.notariseFlag
       THEN IF flag.appleIDProfileFlag = ""
            THEN /\ Continue("notarization requires an Apple ID profile", "delete")
                 /\ UNCHANGED <<subprocs, calls, stages, fs>>
            ELSE \E env \in NotarizeEnvs :
                   LET r == NotarizeApplication(GetBundleName, flag.appleIDProfileFlag,
                                                env, fs)
                   IN  /\ subprocs' = subprocs \o r.procs
                       /\ fs' = r.fs
                       /\ calls' = Append(calls, Call("NotarizeApplication", "main",
                                                     GetBundleName, r.err, fs, r.fs,
                                                     layout, layout, << >>))
                       /\ stages' = Append(stages, Stage("Notarize", r.err = "nil"))
                       /\ Continue(r.err, "delete")
       ELSE /\ pc' = "delete"
            /\ UNCHANGED <<subprocs, calls, stages, fs, exitCode>>
    /\ UNCHANGED <<packageInfo, flag, layout, parameters>>

\* Step 7: DeleteAll() when -delete is given; then main returns.
Delete ==
    /\ pc = "delete"
    /\ IF flag.deleteFlag
       THEN \E d \in DeleteAll(applicationDirectory, fs) :
                /\ fs' = d.fs
                /\ calls' = Append(calls, Call("DeleteAll", "main", applicationDirectory,
                                              d.err, fs, d.fs, layout, layout, << >>))
                /\ stages' = Append(stages, Stage("DeleteAll", d.err = "nil"))
                /\ pc' = "exit"
                /\ exitCode' = IF d.err # "nil" THEN 1 ELSE 0
       ELSE /\ pc' = "exit"
            /\ exitCode' = 0
            /\ UNCHANGED <<fs, calls, stages>>
    /\ UNCHANGED <<packageInfo, flag, layout, subprocs, parameters>>

Next ==
    \/ Validate
    \/ Clean
    \/ Create
    \/ Plist
    \/ Exec
    \/ Icon
    \/ Sign
    \/ Notarize
    \/ Delete

Spec == Init /\ [][Next]_vars

(***************************************************************************)
(* Runs over the descriptor's optional fields and payload names            *)
(***************************************************************************)

\* package_type and signature values: absent, four bytes long, and of another length.
PackageTypes == {"", "BNDL", "APPLE"}
Signatures == {"", "ABCD", "ab"}

\* exec_file names: a JAR, a binary, and names that differ from "jar" in case or dot.
ExecFileNames == {"app.jar", "tool", "APP.JAR", "myjar"}

\* Descriptors with the metadata fields varied, with the payload fields varied,
\* and one without an icon file name.
VariantDescriptors ==
    {[Sample EXCEPT !.IconFileName = ""]} \cup
    {[Sample EXCEPT !.BundlePackageType = t, !.BundleSignature = s, !.ExecFileName = e] :
     t \in PackageTypes, s \in Signatures, e \in {"app.jar", "tool"}}
    \cup {[Sample EXCEPT !.NSPrincipalClass = c, !.NSMainNibFile = n,
                         !.BundleDisplayName = d] :
          c \in {"", "NSApplication"}, n \in {"", "MainMenu"}, d \in {"", "Sample App"}}
    \cup {[Sample EXCEPT !.ExecFileName = e, !.LocalJava = j, !.LocalExecDirectory = l] :
          e \in ExecFileNames, j \in {"true", "false"}, l \in {"", "build"}}

VariantFlags ==
    [applicationNameFlag : {"my_app"}, cleanFlag : {FALSE}, signFlag : BOOLEAN,
     deleteFlag : BOOLEAN, notariseFlag : {FALSE}, appleIDProfileFlag : {""}]

\* The sources of these descriptors, all present: each payload in dist and, with
\* other content, in build.
VariantSources ==
    [q \in {<<"dist">>, <<"build">>, <<"assets">>, <<"assets", "icon.icns">>, <<"jdk">>,
            <<"jdk", "bin">>, <<"jdk", "bin", "java">>, <<"jdk", "release">>}
           \cup {<<d, e>> : d \in {"dist", "build"}, e \in ExecFileNames}
     |-> IF Len(q) = 2 /\ q[1] \in {"dist", "build"}
         THEN FileEntry(q[1] \o "/" \o q[2] \o " bytes", "0644")
         ELSE IF q = <<"assets", "icon.icns">> THEN FileEntry("icon bytes", "0600")
         ELSE IF q = <<"jdk", "bin", "java">> THEN FileEntry("java bytes", "0555")
         ELSE IF q = <<"jdk", "release">> THEN FileEntry("release bytes", "0444")
         ELSE DirEntry("0755")]

\* The permission bits the icon file has.
IconModes == {"0600", "0444"}

VariantFilesystems ==
    {Merge([q \in {<<"assets", "icon.icns">>} |-> FileEntry("icon bytes", mode)],
           Merge(VariantSources, left)) :
     mode \in IconModes,
     left \in {l \in Leftovers : l = << >> \/ IsDir(<<"Sample.app">>, l)}}

VariantInit ==
    /\ packageInfo \in VariantDescriptors
    /\ flag \in VariantFlags
    /\ applicationDirectory = << >>
    /\ contentsDir = << >>
    /\ macosDir = << >>
    /\ resourcesDir = << >>
    /\ javaDir = << >>
    /\ runtimeDir = << >>
    /\ fs \in VariantFilesystems
    /\ pc = "validate"
    /\ exitCode = -1
    /\ stages = << >>
    /\ calls = << >>
    /\ subprocs = << >>
    /\ parameters = << >>

VariantSpec == VariantInit /\ [][Next]_vars

(***************************************************************************)
(* Runs over Java homes with symbolic links                                *)
(***************************************************************************)

\* JAR descriptors: local Java on and off, the launcher named launch or as the JAR.
JavaDescriptors ==
    {[Sample EXCEPT !.LocalJava = j, !.BundleExecutable = x] :
     j \in {"true", "false"}, x \in {"launch", "app.jar"}}

\* What the Java home holds besides bin/java and release: nothing, a link to a
\* file, a link to a directory, a link to the Java home itself, a link to nothing.
JavaHomeLinks ==
    {<< >>,
     [q \in {<<"jdk", "current">>} |-> LinkEntry("bin/java")],
     [q \in {<<"jdk", "current">>} |-> LinkEntry("bin")],
     [q \in {<<"jdk", "loop">>} |-> LinkEntry(".")],
     [q \in {<<"jdk", "current">>} |-> LinkEntry("missing")]}

JavaFilesystems == {Merge(VariantSources, links) : links \in JavaHomeLinks}

JavaInit ==
    /\ packageInfo \in JavaDescriptors
    /\ flag \in VariantFlags
    /\ applicationDirectory = << >>
    /\ contentsDir = << >>
    /\ macosDir = << >>
    /\ resourcesDir = << >>
    /\ javaDir = << >>
    /\ runtimeDir = << >>
    /\ fs \in JavaFilesystems
    /\ pc = "validate"
    /\ exitCode = -1
    /\ stages = << >>
    /\ calls = << >>
    /\ subprocs = << >>
    /\ parameters = << >>

JavaSpec == JavaInit /\ [][Next]_vars

(***************************************************************************)
(* The configuration parameters (utilities/config)                         *)
(***************************************************************************)

\* keyValuePair{key, value}
KeyValuePair(key, value) == [key |-> key, value |-> value]

\* configParameters{group, parameter}
ConfigParameters(group, parameter) == [group |-> group, parameter |-> parameter]

\* setDefaultParameters: the hardcoded defaults, here with two of the DB pairs.
setDefaultParameters ==
    <<ConfigParameters("Network", <<KeyValuePair("port", "8080")>>),
      ConfigParameters("DB", <<KeyValuePair("port", "3306"),
                               KeyValuePair("host", "localhost")>>)>>

\* The loop of ChangeParameterStructure over params[i..]: parameterFound and
\* groupFound are set once and never reset between the groups.
RECURSIVE ChangeLoop(_, _, _, _, _, _, _, _)
ChangeLoop(group, key, value, params, i, parameterFound, groupFound, newParameters) ==
    IF i > Len(params)
    THEN [parameterFound |-> parameterFound, groupFound |-> groupFound,
          newParameters |-> newParameters]
    ELSE LET parameterGroup == params[i]
             inGroup == parameterGroup.group = group
             copied == [j \in 1..Len(parameterGroup.parameter) |->
                          IF key = parameterGroup.parameter[j].key /\ inGroup
                          THEN KeyValuePair(parameterGroup.parameter[j].key, value)
                          ELSE parameterGroup.parameter[j]]
             found == parameterFound
                      \/ (inGroup /\ \E j \in 1..Len(parameterGroup.parameter) :
                                        parameterGroup.parameter[j].key = key)
             keyValuePairs == IF ~found /\ inGroup
                              THEN Append(copied, KeyValuePair(key, value))
                              ELSE copied
         IN  ChangeLoop(group, key, value, params, i + 1, found, groupFound \/ inGroup,
                        Append(newParameters,
                               ConfigParameters(parameterGroup.group, keyValuePairs)))

\* ChangeParameterStructure with the new group put first.
ChangeParameterStructureGroupFirst(group, key, value, params) ==
    LET r == ChangeLoop(group, key, value, params, 1, FALSE, FALSE, << >>) IN
    IF ~r.groupFound
    THEN <<ConfigParameters(group, <<KeyValuePair(key, value)>>)>> \o r.newParameters
    ELSE r.newParameters

\* ChangeParameterStructure(group, key, value, parameters): the structure with
\* the pair merged in; its error is always nil.
ChangeParameterStructure(group, key, value, params) ==
    LET r == ChangeLoop(group, key, value, params, 1, FALSE, FALSE, << >>) IN
    IF ~r.groupFound
    THEN Append(r.newParameters, ConfigParameters(group, <<KeyValuePair(key, value)>>))
    ELSE r.newParameters

\* GetStringByGroupAndElement over params: the value of the first pair of the
\* group with the key, in the order of the groups and of their pairs.
GetStringByGroupAndElement(groupName, elementName, params) ==
    LET hits == {ij \in UNION {{<<i, j>> : j \in 1..Len(params[i].parameter)} :
                                i \in 1..Len(params)} :
                   /\ params[ij[1]].group = groupName
                   /\ params[ij[1]].parameter[ij[2]].key = elementName}
        Before(a, b) == a[1] < b[1] \/ (a[1] = b[1] /\ a[2] <= b[2])
    IN  IF hits = {}
        THEN [value |-> "", err |-> "value not found in configuration"]
        ELSE LET first == CHOOSE a \in hits : \A b \in hits : Before(a, b)
             IN  [value |-> params[first[1]].parameter[first[2]].value, err |-> "nil"]

\* The group names, keys and values of the merged pairs.
GroupNames == {"Network", "DB", "Log"}
KeyNames == {"port", "host"}
Values == {"8080", "3306"}

\* The lists of at most two pairs, a key twice included.
PairLists ==
    {<< >>}
    \cup {<<KeyValuePair(k, "8080")>> : k \in KeyNames}
    \cup {<<KeyValuePair(k1, "8080"), KeyValuePair(k2, "8080")>> :
          k1 \in KeyNames, k2 \in KeyNames}

\* The structures of at most two groups with pairwise distinct names, the
\* defaults among them.
ParameterStructures ==
    {<< >>, setDefaultParameters}
    \cup {<<ConfigParameters(g, l)>> : g \in {"Network", "DB"}, l \in PairLists}
    \cup {<<ConfigParameters(g[1], l1), ConfigParameters(g[2], l2)>> :
          g \in {<<"Network", "DB">>, <<"DB", "Network">>},
          l1 \in PairLists, l2 \in PairLists}

\* The number of pairs one YAML file merges.
MaxMerges == 2

ConfigInit ==
    /\ packageInfo = Sample
    /\ flag \in {f \in Flags : /\ ~f.cleanFlag /\ ~f.signFlag /\ ~f.notariseFlag
                              /\ ~f.deleteFlag /\ f.appleIDProfileFlag = ""}
    /\ applicationDirectory = << >>
    /\ contentsDir = << >>
    /\ macosDir = << >>
    /\ resourcesDir = << >>
    /\ javaDir = << >>
    /\ runtimeDir = << >>
    /\ fs = << >>
    /\ pc = "load"
    /\ exitCode = -1
    /\ stages = << >>
    /\ calls = << >>
    /\ subprocs = << >>
    /\ parameters \in ParameterStructures

\* loadYamlFile's loop body: one pair of the YAML file merged into parameters.
\* The call is recorded with the structure before and after it.
MergePair ==
    /\ pc = "load"
    /\ Len(calls) < MaxMerges
    /\ \E group \in GroupNames, key \in KeyNames, value \in Values :
        LET new == ChangeParameterStructure(group, key, value, parameters) IN
        /\ parameters' = new
        /\ calls' = Append(calls, Call("ChangeParameterStructure", "loadYamlFile",
                                      <<group, key, value>>, "nil", parameters, new,
                                      layout, layout, << >>))
    /\ UNCHANGED <<packageInfo, flag, layout, fs, pc, exitCode, stages, subprocs>>

ConfigNext == MergePair

ConfigSpec == ConfigInit /\ [][ConfigNext]_vars

(***************************************************************************)
(* Properties                                                              *)
(***************************************************************************)

CallsOf(op) == {i \in 1..Len(calls) : calls[i].op = op}

\* The filesystem the run started on (nothing changes it before validation).
InitialFs == IF calls = << >> THEN fs ELSE calls[1].pre

\* A source the descriptor names is not on disk.
SourceMissing(f) ==
    \/ NotExist(FullExecPath, f)
    \/ NotExist(FullIconPath, f)
    \/ (GetUseLocalJava /\ NotExist(JavaHomePath, f))

\* C1: in a run where the executable file, the icon file or (with local Java) the
\* Java home does not exist, validation fails and the process ends with status 1
\* before CreateDirectoryStructure is called: nothing on disk has changed.
C1_MissingSourceEndsBeforeCreate ==
    SourceMissing(InitialFs) =>
        /\ CallsOf("CreateDirectoryStructure") = {}
        /\ fs = InitialFs
        /\ pc \in {"validate", "exit"}
        /\ pc = "exit" => exitCode = 1 /\ stages = <<Stage("Validate", FALSE)>>

\* A run ended by validation because the icon, and only the icon, is missing.
C1_Witness ==
    /\ pc = "exit"
    /\ ~NotExist(FullExecPath, InitialFs)
    /\ NotExist(FullIconPath, InitialFs)
    /\ ~GetUseLocalJava

CreateSucceeded ==
    \E i \in CallsOf("CreateDirectoryStructure") : calls[i].err = "nil"

\* The run ended in CreatePlist's mandatory-field check, after PkgInfo was written.
PkgInfoGap ==
    /\ calls # << >>
    /\ calls[Len(calls)].op = "CreatePlist"
    /\ calls[Len(calls)].err = "Info.plist <mandatory fields missing>"

\* C2: a run that fails after CreateDirectoryStructure succeeded ends with the
\* bundle root deleted (the PkgInfo-before-validation gap aside, and unless a
\* DeleteAll itself failed).
C2_FailureDeletesBundle ==
    (/\ pc = "exit"
     /\ exitCode # 0
     /\ CreateSucceeded
     /\ ~PkgInfoGap
     /\ \A i \in CallsOf("DeleteAll") : calls[i].err = "nil")
    => applicationDirectory \notin DOMAIN fs

\* C3: when payload staging fails, CopyExecutable reports the failure, no later
\* stage runs and the run does not end with the success status.
C3_PayloadFailureHalts ==
    \A i \in 1..Len(stages) :
        (stages[i].stage = "StagePayload" /\ ~stages[i].ok) =>
            /\ i = Len(stages)
            /\ \A j \in CallsOf("CopyExecutable") : calls[j].err # "nil"
            /\ exitCode # 0

StageOrder ==
    <<"Validate", "CreateLayout", "RenderMetadata", "StagePayload", "StageIcon", "Sign",
      "Verify", "Notarize", "DeleteAll">>

Rank(stage) == CHOOSE n \in 1..Len(StageOrder) : StageOrder[n] = stage

Optional == {"Sign", "Verify", "Notarize", "DeleteAll"}

\* C4: the stages run at most once each and in the order Validate, CreateLayout,
\* RenderMetadata, StagePayload, StageIcon, Sign, Verify, Notarize, DeleteAll, and
\* a stage starts only after every earlier non-optional stage has run and every
\* stage started before it has succeeded.
C4_StagesInOrder ==
    \A i \in 1..Len(stages) :
        /\ \A j \in 1..(i - 1) :
              /\ Rank(stages[j].stage) < Rank(stages[i].stage)
              /\ stages[j].ok
        /\ \A n \in 1..(Rank(stages[i].stage) - 1) :
              StageOrder[n] \notin Optional => \E j \in 1..(i - 1) : stages[j].stage = StageOrder[n]

\* C5: a subprocess of NotarizeApplication (zip, xcrun notarytool) is started only
\* in runs with -notarize, -sign and a non-empty profile.
C5_NotarizeNeedsSignAndProfile ==
    (\E i \in 1..Len(subprocs) : subprocs[i].tool \in {"zip", "xcrun"})
    => flag.notariseFlag /\ flag.signFlag /\ flag.appleIDProfileFlag # ""

\* C6: in a run whose descriptor has an empty mandatory field, no directory and no
\* file is created (stated for the runs in which no system call failed).
C6_EmptyFieldNothingCreated ==
    (/\ MandatoryMissing
     /\ \A i \in 1..Len(calls) :
           calls[i].err \in {"nil", "Info.plist <mandatory fields missing>",
                             "Application root directory cannot be empty"})
    => DOMAIN fs \subseteq DOMAIN InitialFs

\* The six directories of the bundle named applicationRoot, in creation order.
SixDirectories(applicationRoot) ==
    <<<<applicationRoot \o ".app">>,
      <<applicationRoot \o ".app", "Contents">>,
      <<applicationRoot \o ".app", "Contents", "MacOS">>,
      <<applicationRoot \o ".app", "Contents", "Resources">>,
      <<applicationRoot \o ".app", "Contents", "Java">>,
      <<applicationRoot \o ".app", "Contents", "Java", "runtime">>>>

\* The DeleteAll calls CreateDirectoryStructure call i made (recorded right before it).
TeardownOf(i) ==
    IF i > 1 /\ calls[i - 1].op = "DeleteAll" /\ calls[i - 1].by = "CreateDirectoryStructure"
    THEN {i - 1} ELSE {}

\* C7: CreateDirectoryStructure with the empty root name returns an error, creates
\* no directory, deletes nothing and leaves the six layout paths as they were.
C7_EmptyRootNoEffect ==
    \A i \in CallsOf("CreateDirectoryStructure") :
        calls[i].arg = "" =>
            /\ calls[i].err # "nil"
            /\ calls[i].mkdirs = << >>
            /\ TeardownOf(i) = {}
            /\ calls[i].post = calls[i].pre
            /\ calls[i].layoutPost = calls[i].layoutPre
            /\ layout = calls[i].layoutPre

C7_Witness ==
    \E i \in CallsOf("CreateDirectoryStructure") : calls[i].arg = "" /\ pc = "exit"

\* C8: CreateDirectoryStructure with a non-empty root name calls createDir on root,
\* Contents, Contents/MacOS, Contents/Resources, Contents/Java, Contents/Java/runtime
\* in that order, and when it returns nil all six are directories and the layout
\* paths are <name>.app/Contents/... of the given name.
C8_SixDirectoriesInOrder ==
    \A i \in CallsOf("CreateDirectoryStructure") :
        calls[i].arg # "" =>
            LET six == SixDirectories(calls[i].arg) IN
            /\ Len(calls[i].mkdirs) \in 1..6
            /\ calls[i].mkdirs = SubSeq(six, 1, Len(calls[i].mkdirs))
            /\ calls[i].err = "nil" =>
                  /\ calls[i].mkdirs = six
                  /\ \A n \in 1..6 : IsDir(six[n], calls[i].post)
                  /\ calls[i].layoutPost = six
                  /\ layout = six

\* A successful call that had to create all six directories.
C8_Witness ==
    \E i \in CallsOf("CreateDirectoryStructure") :
        /\ calls[i].err = "nil"
        /\ \A n \in 1..6 : NotExist(SixDirectories(calls[i].arg)[n], calls[i].pre)

C10_DeleteAllIdempotent ==
    /\ \A i \in CallsOf("DeleteAll") :
          NotExist(calls[i].arg, calls[i].pre) =>
              calls[i].err = "nil" /\ calls[i].post = calls[i].pre
    /\ \A d \in DeleteAll(applicationDirectory, fs) :
          d.err = "nil" =>
              DeleteAll(applicationDirectory, d.fs) = {[err |-> "nil", fs |-> d.fs]}

\* DeleteAll called on a named bundle root that is not there.
C10_Witness ==
    \E i \in CallsOf("DeleteAll") :
        calls[i].arg # << >> /\ NotExist(calls[i].arg, calls[i].pre)

\* The successful CreateDirectoryStructure call main has just returned from.
JustCreated ==
    {i \in CallsOf("CreateDirectoryStructure") :
        i = Len(calls) /\ calls[i].err = "nil" /\ pc = "plist"}

\* C11 as stated: DeleteAll right after a successful CreateDirectoryStructure leaves
\* the filesystem as it was before CreateDirectoryStructure, whatever was at
\* <name>.app before.
C11_RoundTripRestores ==
    \A i \in JustCreated :
        \A d \in DeleteAll(applicationDirectory, fs) :
            d.err = "nil" => d.fs = calls[i].pre

\* C11 amended: DeleteAll right after a successful CreateDirectoryStructure, when it
\* succeeds, leaves nothing at or below <name>.app and everything else as it was
\* before CreateDirectoryStructure; that is the filesystem before the call exactly
\* when <name>.app did not exist then.
C11_RoundTripRemovesRoot ==
    \A i \in JustCreated :
        \A d \in DeleteAll(applicationDirectory, fs) :
            d.err = "nil" =>
                LET pre == calls[i].pre
                    root == <<calls[i].arg \o ".app">>
                IN  /\ applicationDirectory = root
                    /\ d.fs = Restrict(pre, DOMAIN pre \ Under(root, pre))
                    /\ d.fs = pre <=> NotExist(root, pre)

\* CreateDirectoryStructure has just created a bundle that was not there.
C11_Witness ==
    \E i \in JustCreated : NotExist(applicationDirectory, calls[i].pre)

\* The bundle root main builds: <bundle name>.app.
BundleRoot == <<GetBundleName \o ".app">>

\* C12: after a successful run with -clean, no file that was in the bundle before
\* the run is in it.
C12_CleanRemovesLeftovers ==
    (pc = "exit" /\ exitCode = 0 /\ flag.cleanFlag) =>
        \A q \in Under(BundleRoot, fs) :
            fs[q].kind = "file" => q \notin DOMAIN InitialFs

\* The content of Contents/PkgInfo after CreatePlist call i.
PkgInfoAfter(i) == calls[i].post[Join(calls[i].layoutPost[2], <<"PkgInfo">>)].content

\* The CreatePlist calls in which PkgInfo was written and is still there.
PkgInfoWritten ==
    {i \in CallsOf("CreatePlist") :
        calls[i].err \in {"nil", "Info.plist <mandatory fields missing>"}}

\* C13 as stated: PkgInfo holds exactly 8 bytes, and when the package type or the
\* signature is not 4 characters long these are "APPL????".
C13_PkgInfoDefaultsTogether ==
    \A i \in PkgInfoWritten :
        /\ Len(PkgInfoAfter(i)) = 8
        /\ (Len(GetPackageType) # 4 \/ Len(GetBundleSignature) # 4)
              => PkgInfoAfter(i) = "APPL????"

\* C13 amended: PkgInfo, once written, holds exactly 8 bytes: the package type when
\* it is 4 bytes long and "APPL" otherwise, then the signature when it is 4 bytes
\* long and "????" otherwise; they are "APPL????" when neither is 4 bytes long.
C13_PkgInfoDefaultsEach ==
    \A i \in PkgInfoWritten :
        LET c == PkgInfoAfter(i)
            t == GetPackageType
            g == GetBundleSignature
        IN  /\ Len(c) = 8
            /\ SubSeq(c, 1, 4) = (IF Len(t) = 4 THEN t ELSE "APPL")
            /\ SubSeq(c, 5, 8) = (IF Len(g) = 4 THEN g ELSE "????")
            /\ (Len(t) # 4 /\ Len(g) # 4) => c = "APPL????"

\* PkgInfo written for package type BNDL and a signature of two bytes.
C13_Witness ==
    \E i \in PkgInfoWritten :
        GetPackageType = "BNDL" /\ GetBundleSignature = "ab" /\ PkgInfoAfter(i) = "BNDL????"

\* The filesystems f and g differ at most at the paths in S.
SameExceptAt(f, g, S) ==
    /\ DOMAIN f \ S = DOMAIN g \ S
    /\ \A q \in DOMAIN f \ S : f[q] = g[q]

PkgInfoPath(i) == Join(calls[i].layoutPost[2], <<"PkgInfo">>)
InfoPlistPath(i) == Join(calls[i].layoutPost[2], <<"Info.plist">>)

Contains(str, sub) ==
    \E n \in 1..(Len(str) - Len(sub) + 1) : SubSeq(str, n, n + Len(sub) - 1) = sub

HasKey(content, key) == Contains(content, "<key>" \o key \o "</key>")

\* The successful CreatePlist call main has just returned from.
JustRendered ==
    {i \in CallsOf("CreatePlist") : i = Len(calls) /\ calls[i].err = "nil" /\ pc = "exec"}

MandatoryKeys ==
    {"CFBundleIdentifier", "CFBundleName", "CFBundleDisplayName", "CFBundleVersion",
     "CFBundleShortVersionString", "CFBundleExecutable", "CFBundleSignature",
     "LSMinimumSystemVersion", "CFBundleIconFile", "CFBundlePackageType",
     "NSHumanReadableCopyright"}

\* C15: the Info.plist a successful CreatePlist wrote has each of the 11 mandatory
\* keys, an empty value included, the NSPrincipalClass key exactly when the
\* principal class is non-empty and the NSMainNibFile key exactly when the main nib
\* file is non-empty.
C15_PlistKeys ==
    \A i \in JustRendered :
        LET content == calls[i].post[InfoPlistPath(i)].content IN
        /\ ~MandatoryMissing
        /\ \A key \in MandatoryKeys : HasKey(content, key)
        /\ Contains(content, "<key>CFBundleDisplayName</key>\n<string>"
                              \o GetBundleDisplayName \o "</string>")
        /\ HasKey(content, "NSPrincipalClass") <=> GetNSPrincipalClass # ""
        /\ HasKey(content, "NSMainNibFile") <=> GetNSMainNibFile # ""

\* An Info.plist rendered with a principal class, no main nib file and an empty
\* display name.
C15_Witness ==
    \E i \in JustRendered :
        /\ GetNSPrincipalClass # ""
        /\ GetNSMainNibFile = ""
        /\ GetBundleDisplayName = ""
        /\ HasKey(calls[i].post[InfoPlistPath(i)].content, "NSPrincipalClass")

\* A run that ended with status 0, every stage of it successful, the bundle kept.
SuccessfulRun ==
    /\ pc = "exit"
    /\ exitCode = 0
    /\ ~flag.deleteFlag
    /\ \A n \in 1..Len(stages) : stages[n].ok

\* C16: after a successful run a file is at Contents/MacOS/<executable>, the name
\* written as CFBundleExecutable: the launcher script for a JAR payload, the copied
\* binary for a binary payload.
C16_ExecutableInMacOS ==
    SuccessfulRun =>
        LET executable == Join(macosDir, P(GetBundleExecutable))
            plist == fs[Join(contentsDir, <<"Info.plist">>)].content
        IN  /\ Contains(plist, "<key>CFBundleExecutable</key>\n<string>"
                                \o GetBundleExecutable \o "</string>")
            /\ executable \in DOMAIN fs
            /\ fs[executable].kind = "file"
            /\ fs[executable].content =
                  IF HasSuffix(GetExecutableName, "jar")
                  THEN StartString(GetExecutableName)
                  ELSE InitialFs[FullExecPath].content

\* Payload staging succeeded in this run.
PayloadStaged == \E n \in 1..Len(stages) : stages[n].stage = "StagePayload" /\ stages[n].ok

SourceDirectory ==
    IF packageInfo.LocalExecDirectory # "" THEN packageInfo.LocalExecDirectory
    ELSE packageInfo.ExecFileDirectory

\* C18: after the binary strategy staged the payload, Contents/MacOS/<exec_file> is
\* a file with the content of the source file, read from local_exec_directory when
\* that is non-empty and from exec_file_directory otherwise, and has mode 0755.
C18_BinaryCopied ==
    \A i \in CallsOf("CopyExecutable") :
        (calls[i].arg = "binary" /\ PayloadStaged) =>
            LET source == <<SourceDirectory, packageInfo.ExecFileName>>
                destination == calls[i].layoutPost[1]
                               \o <<"Contents", "MacOS", packageInfo.ExecFileName>>
            IN  /\ source \in DOMAIN calls[i].pre
                /\ destination \in DOMAIN calls[i].post
                /\ calls[i].post[destination].kind = "file"
                /\ calls[i].post[destination].content = calls[i].pre[source].content
                /\ calls[i].post[destination].mode = "0755"
                /\ calls[i].post[source] = calls[i].pre[source]

\* A binary staged from local_exec_directory.
C18_Witness ==
    \E i \in CallsOf("CopyExecutable") :
        /\ calls[i].arg = "binary"
        /\ PayloadStaged
        /\ packageInfo.LocalExecDirectory = "build"
        /\ packageInfo.ExecFileName = "tool"
        /\ calls[i].post[calls[i].layoutPost[3] \o <<"tool">>].content = "build/tool bytes"

\* The calls copyJarExec made in this run, in order.
JarSteps == SelectSeq(calls, LAMBDA c : c.by = "copyJarExec")

\* The steps of the JAR strategy, in the order of the claim.
JarStepOrder ==
    (IF packageInfo.LocalJava = "true" THEN <<"CopyDirectory">> ELSE << >>)
    \o <<"Copy", "os.Create", "WriteString", "os.Chmod">>

\* C19: copyJarExec copies the Java runtime (with local Java), then the JAR, then
\* creates, writes and chmods the launcher script, each step only after the ones
\* before it succeeded, and returns the first error; when the runtime copy fails
\* it is the only step, its error is returned, and neither the JAR nor the script
\* is created.
C19_JarStepsInOrder ==
    \A i \in CallsOf("copyJarExec") :
        LET S == JarSteps
            last == Len(S)
            jar == Join(calls[i].layoutPost[3], P(GetExecutableName))
            script == Join(calls[i].layoutPost[3], P(GetBundleExecutable))
        IN  /\ last \in 1..Len(JarStepOrder)
            /\ \A n \in 1..last : S[n].op = JarStepOrder[n]
            /\ \A n \in 1..(last - 1) : S[n].err = "nil" /\ S[n + 1].pre = S[n].post
            /\ S[1].pre = calls[i].pre
            /\ S[last].post = calls[i].post
            /\ calls[i].err = S[last].err
            /\ calls[i].err = "nil" => last = Len(JarStepOrder)
            /\ (S[1].op = "CopyDirectory" /\ S[1].err # "nil") =>
                  /\ last = 1
                  /\ calls[i].err = S[1].err
                  /\ ~PayloadStaged
                  /\ jar \notin DOMAIN calls[i].post
                  /\ script \notin DOMAIN calls[i].post

\* The runtime copy failed after it had copied part of the Java home.
C19_Witness ==
    \E i \in CallsOf("copyJarExec") :
        /\ JarSteps[1].op = "CopyDirectory"
        /\ JarSteps[1].err # "nil"
        /\ JarSteps[1].post # JarSteps[1].pre

\* The first lines of both launcher scripts.
ScriptHead == "#!/bin/bash\n\nDIR=\"$(cd \"$(dirname \"$0\")\" && pwd)\"\n"

\* C20: after copyJarExec succeeded, the launcher script Contents/MacOS/<executable>
\* has mode 0755 and holds, with local Java off, the script that runs
\* java -jar "$DIR/<jarfile>", and with local Java on, the script that exports
\* JAVA_HOME="$DIR/../Java/runtime" and runs "$JAVA_HOME/bin/java" -jar
\* "$DIR/<jarfile>": nothing but the flag and the JAR name goes into it.
C20_LauncherScript ==
    \A i \in CallsOf("copyJarExec") :
        calls[i].err = "nil" =>
            LET script == calls[i].layoutPost[1]
                          \o <<"Contents", "MacOS", packageInfo.BundleExecutable>>
                jarfile == packageInfo.ExecFileName
            IN  /\ script \in DOMAIN calls[i].post
                /\ calls[i].post[script].kind = "file"
                /\ calls[i].post[script].mode = "0755"
                /\ calls[i].post[script].content =
                      IF packageInfo.LocalJava = "true"
                      THEN ScriptHead \o "export JAVA_HOME=\"$DIR/../Java/runtime\"\n"
                           \o "\"$JAVA_HOME/bin/java\" -jar \"$DIR/" \o jarfile \o "\"\n"
                      ELSE ScriptHead \o "java -jar \"$DIR/" \o jarfile \o "\"\n"

\* A launcher script written for a bundled Java runtime.
C20_Witness ==
    \E i \in CallsOf("copyJarExec") :
        /\ calls[i].err = "nil"
        /\ packageInfo.LocalJava = "true"
        /\ packageInfo.ExecFileName = "myjar"
        /\ Join(calls[i].layoutPost[6], <<"bin", "java">>) \in DOMAIN calls[i].post

\* The source path q of the Java home as a path below the bundle's runtime directory.
InRuntime(q, i) == calls[i].layoutPost[6] \o SubSeq(q, 2, Len(q))

\* C21: after a successful copy of the Java home, every file, directory and link
\* below it has a counterpart of the same kind at the same relative path below
\* Contents/Java/runtime, a file with the same content and a link with the same
\* target.
C21_JavaHomeReplicated ==
    \A i \in CallsOf("CopyDirectory") :
        calls[i].err = "nil" =>
            \A q \in Under(<<"jdk">>, calls[i].pre) \ {<<"jdk">>} :
                /\ InRuntime(q, i) \in DOMAIN calls[i].post
                /\ calls[i].post[InRuntime(q, i)].kind = calls[i].pre[q].kind
                /\ calls[i].pre[q].kind # "dir" =>
                      calls[i].post[InRuntime(q, i)].content = calls[i].pre[q].content

\* C22: after a successful CopyIcon, Contents/Resources/<icon_file> is a file with
\* the content and the permission bits of <icon_file_directory>/<icon_file>, and
\* nothing else has changed; CopyIcon with an empty icon filename returns an error
\* and changes nothing.
C22_IconCopied ==
    /\ \A i \in CallsOf("CopyIcon") :
          calls[i].err = "nil" =>
              LET source == <<packageInfo.IconFileDirectory, packageInfo.IconFileName>>
                  destination == calls[i].layoutPost[1]
                                 \o <<"Contents", "Resources", packageInfo.IconFileName>>
              IN  /\ destination \in DOMAIN calls[i].post
                  /\ calls[i].post[destination].kind = "file"
                  /\ calls[i].post[destination].content = calls[i].pre[source].content
                  /\ calls[i].post[destination].mode = calls[i].pre[source].mode
                  /\ SameExceptAt(calls[i].pre, calls[i].post, {destination})
    /\ packageInfo.IconFileName = "" =>
          \A o \in CopyIcon(fs) : o.err # "nil" /\ o.fs = fs

\* An icon with the permission bits 0444 copied.
C22_Witness ==
    \E i \in CallsOf("CopyIcon") :
        /\ calls[i].err = "nil"
        /\ calls[i].pre[<<"assets", "icon.icns">>].mode = "0444"
        /\ calls[i].post[calls[i].layoutPost[4] \o <<"icon.icns">>].mode = "0444"

\* C23: when -app gives a non-empty name N, CreateDirectoryStructure is called with
\* N, the bundle root is N.app, and NotarizeApplication and DeleteAll are called on
\* that bundle, not on the bundle of the descriptor's name.
C23_AppFlagNamesBundle ==
    flag.applicationNameFlag # "" =>
        /\ \A i \in CallsOf("CreateDirectoryStructure") :
              /\ calls[i].arg = flag.applicationNameFlag
              /\ calls[i].err = "nil" =>
                    applicationDirectory = <<flag.applicationNameFlag \o ".app">>
        /\ \A i \in CallsOf("NotarizeApplication") :
              calls[i].arg = flag.applicationNameFlag
        /\ \A i \in CallsOf("DeleteAll") :
              calls[i].arg \in {<< >>, <<flag.applicationNameFlag \o ".app">>}

\* C24: the path the zip subprocess is started on is the bundle root that
\* CreateDirectoryStructure created, a directory, the same path codesign is
\* started on.
C24_ZipTargetIsBundleRoot ==
    \A n \in 1..Len(subprocs) :
        subprocs[n].tool = "zip" =>
            /\ subprocs[n].target = applicationDirectory
            /\ IsDir(subprocs[n].target, fs)
            /\ \A m \in 1..Len(subprocs) :
                  subprocs[m].tool = "codesign" => subprocs[m].target = subprocs[n].target

\* The subprocesses of r include the signature verification.
Verifies(r) == \E n \in 1..Len(r.procs) : r.procs[n].verb = "--verify"

\* C25: whenever main is about to sign, SignApplication fails without starting the
\* verification if codesign is not found, no identity is found or the signing
\* subprocess exits non-zero, and returns nil exactly when both tools are found,
\* an identity is found, and signing and then verification exit zero; the calls
\* made so far went that way.
C25_SignFailsBeforeVerify ==
    /\ (pc = "sign" /\ flag.signFlag) =>
          \A env \in SignEnvs :
              LET r == SignApplication(env) IN
              /\ (~env.codesign \/ (env.security /\ env.securityExit = 0 /\ ~env.identity)
                   \/ (env.codesign /\ env.security /\ env.securityExit = 0 /\ env.identity
                       /\ env.signExit # 0))
                    => r.err # "nil" /\ ~Verifies(r)
              /\ r.err = "nil" <=>
                    /\ env.codesign /\ env.security /\ env.securityExit = 0 /\ env.identity
                    /\ env.signExit = 0 /\ env.verifyExit = 0
              /\ r.err = "nil" =>
                    /\ Len(r.procs) = 3
                    /\ r.procs[2] = Proc("codesign", "--sign", applicationDirectory)
                    /\ r.procs[3] = Proc("codesign", "--verify", applicationDirectory)
    /\ \A i \in CallsOf("SignApplication") :
          LET verified == \E n \in 1..Len(subprocs) : subprocs[n].verb = "--verify"
              signed == \E n \in 1..Len(subprocs) : subprocs[n].verb = "--sign"
          IN  /\ calls[i].err = "nil" => signed /\ verified
              /\ verified => signed
              /\ calls[i].err \in {"program codesign not found in PATH",
                                   "program security not found in PATH",
                                   "failed to run security tool",
                                   "no valid code signing identity found in keychain",
                                   "failed to sign"} => ~verified

\* The signing subprocess failed: it was started, the verification was not.
C25_Witness ==
    \E i \in CallsOf("SignApplication") :
        /\ calls[i].err = "failed to sign"
        /\ \E n \in 1..Len(subprocs) : subprocs[n].verb = "--sign"
        /\ \A n \in 1..Len(subprocs) : subprocs[n].verb # "--verify"

\* The operations that read the layout paths.
LayoutReaders ==
    {"DeleteAll", "CreatePlist", "CreatePkgInfo", "CopyExecutable", "CopyIcon",
     "SignApplication"}

\* C26: the layout paths are written once, by CreateDirectoryStructure: no other
\* call changes them, CreateDirectoryStructure is called at most once, and every
\* call that reads them finds the paths CreateDirectoryStructure wrote.
C26_LayoutWrittenOnceBeforeRead ==
    /\ Cardinality(CallsOf("CreateDirectoryStructure")) <= 1
    /\ \A i \in 1..Len(calls) :
          /\ calls[i].op # "CreateDirectoryStructure" =>
                calls[i].layoutPost = calls[i].layoutPre
          /\ calls[i].op \in LayoutReaders =>
                /\ calls[i].layoutPre[1] # << >>
                /\ calls[i].layoutPre = SixDirectories(GetBundleName)
    /\ (CallsOf("CreateDirectoryStructure") = {}) =>
          layout = << << >>, << >>, << >>, << >>, << >>, << >> >>

\* The lookups of a structure: one result for each group name and key.
Lookups(params) ==
    [gk \in GroupNames \X KeyNames |-> GetStringByGroupAndElement(gk[1], gk[2], params)]

HasGroup(params, group) == \E i \in 1..Len(params) : params[i].group = group

HasPair(params, group, key) ==
    \E i \in 1..Len(params) :
        /\ params[i].group = group
        /\ \E j \in 1..Len(params[i].parameter) : params[i].parameter[j].key = key

DistinctGroups(params) ==
    \A i, j \in 1..Len(params) : params[i].group = params[j].group => i = j

\* The keys of a group, in order.
KeysOf(parameterGroup) ==
    [j \in 1..Len(parameterGroup.parameter) |-> parameterGroup.parameter[j].key]

\* One merge did what the three cases say: pre and post are the structures
\* before and after the merge of (group, key, value).
MergedAsSpecified(group, key, value, pre, post) ==
    /\ Lookups(post) = [Lookups(pre) EXCEPT ![<<group, key>>] =
                                            [value |-> value, err |-> "nil"]]
    /\ Len(post) >= Len(pre)
    /\ \A i \in 1..Len(pre) :
          /\ post[i].group = pre[i].group
          /\ SubSeq(KeysOf(post[i]), 1, Len(pre[i].parameter)) = KeysOf(pre[i])
    /\ HasPair(pre, group, key) =>
          /\ Len(post) = Len(pre)
          /\ \A i \in 1..Len(pre) : KeysOf(post[i]) = KeysOf(pre[i])
    /\ (HasGroup(pre, group) /\ ~HasPair(pre, group, key)) =>
          /\ Len(post) = Len(pre)
          /\ \A i \in 1..Len(pre) :
                post[i].parameter = IF pre[i].group = group
                                    THEN Append(pre[i].parameter, KeyValuePair(key, value))
                                    ELSE pre[i].parameter
    /\ ~HasGroup(pre, group) =>
          post = Append(pre, ConfigParameters(group, <<KeyValuePair(key, value)>>))

\* C27: for a structure whose group names are pairwise distinct,
\* ChangeParameterStructure(group, key, value, params) returns a structure in
\* which the lookup of (group, key) yields value and every other lookup yields
\* what it yielded before; it updates the value where group and key exist,
\* appends the pair to the group where only the group exists, appends a new
\* group with the pair where the group does not exist, and removes or reorders
\* no group and no key.
C27_MergeKeepsOtherLookups ==
    \A i \in 1..Len(calls) :
        (calls[i].op = "ChangeParameterStructure" /\ DistinctGroups(calls[i].pre)) =>
            MergedAsSpecified(calls[i].arg[1], calls[i].arg[2], calls[i].arg[3],
                              calls[i].pre, calls[i].post)

\* A new group was appended to a structure of two groups, and then its value
\* was updated.
C27_Witness ==
    /\ Len(calls) = 2
    /\ calls[1].op = "ChangeParameterStructure"
    /\ DistinctGroups(calls[1].pre)
    /\ Len(calls[1].pre) = 2
    /\ ~HasGroup(calls[1].pre, calls[1].arg[1])
    /\ HasPair(calls[2].pre, calls[2].arg[1], calls[2].arg[2])
    /\ calls[2].arg[1] = calls[1].arg[1]
    /\ calls[2].arg[3] # calls[1].arg[3]
    /\ parameters = calls[2].post
    /\ GetStringByGroupAndElement(calls[2].arg[1], calls[2].arg[2], parameters).value
         = calls[2].arg[3]

\* The value Info.plist gives the key in content is value.
KeyHasValue(content, key, value) ==
    Contains(content, "<key>" \o key \o "</key>\n<string>" \o value \o "</string>")

\* C28: after a successful CreatePlist the CFBundlePackageType value of
\* Info.plist equals the first four bytes of PkgInfo, also for a configured type
\* that is empty or not 4 characters long.
C28_PackageTypeAgrees ==
    \A i \in JustRendered :
        KeyHasValue(calls[i].post[InfoPlistPath(i)].content, "CFBundlePackageType",
                    SubSeq(PkgInfoAfter(i), 1, 4))

\* C29: after a successful JAR staging, Contents/MacOS/<exec_file> holds the
\* bytes of the source JAR, also when the bundle executable has the name of the
\* JAR file: the launcher script does not overwrite the copied JAR.
C29_StagedJarIsSource ==
    \A i \in CallsOf("copyJarExec") :
        calls[i].err = "nil" =>
            LET staged == Join(calls[i].layoutPost[3], P(GetExecutableName))
                source == Join(P(SourceDirectory), P(GetExecutableName))
            IN  /\ staged \in DOMAIN calls[i].post
                /\ calls[i].post[staged].kind = "file"
                /\ calls[i].post[staged].content = calls[i].pre[source].content

\* The CopyDirectory calls of copyJarExec.
RuntimeCopies == {i \in CallsOf("CopyDirectory") : calls[i].by = "copyJarExec"}

\* The returns CopyDirectory call i can make, each with the source paths it
\* visited, in order.
CopyReturns(i) ==
    CopyDirectory(calls[i].arg, Join(calls[i].layoutPre[5], <<"runtime">>), calls[i].pre)

\* How often the visits of a return were visits of the source entry e: a
\* visited path counts for the entry it names, the links before its last
\* component followed.
VisitsOf(e, visited, f) ==
    Cardinality({n \in 1..Len(visited) : Lstat(visited[n], f).path = e})

====
